---------------------------- MODULE Spec2Model ----------------------------
(***************************************************************************)
(* A model of csvimport (src/main.go): the column type classifier          *)
(* (fieldType: Check, SqlType, Parse and the four parse rules), the        *)
(* per-table converter (handle) and the driver (main).                     *)
(*                                                                         *)
(* Strings are TLA+ strings; a character is a string of length one.  The   *)
(* parse rules are modelled on the alphabet the field values below are     *)
(* drawn from: ASCII digits, the letters of "abc" and "DIV" (which spell   *)
(* no exponent, hexadecimal prefix, "inf" or "nan"), and the punctuation   *)
(* , . - + % # / !   On that alphabet strconv.ParseFloat accepts exactly   *)
(* an optional sign, then digits with at most one point and at least one   *)
(* digit.  Integers are Go's 64-bit int; decimal strings are compared as   *)
(* strings, so no model integer ever holds a 64-bit value.                 *)
(***************************************************************************)
EXTENDS Integers, Sequences, FiniteSets, TLC

(***************************************************************************)
(* Characters and strings                                                  *)
(***************************************************************************)
CharAt(s, i) == SubSeq(s, i, i)

Digits == {"0", "1", "2", "3", "4", "5", "6", "7", "8", "9"}

IsDigit(c) == c \in Digits

DigitVal(c) ==
    CASE c = "0" -> 0 [] c = "1" -> 1 [] c = "2" -> 2 [] c = "3" -> 3
      [] c = "4" -> 4 [] c = "5" -> 5 [] c = "6" -> 6 [] c = "7" -> 7
      [] c = "8" -> 8 [] c = "9" -> 9

AllDigits(s) == \A i \in 1..Len(s) : IsDigit(CharAt(s, i))

UpperCase == "ABCDEFGHIJKLMNOPQRSTUVWXYZ"

LowerCase == "abcdefghijklmnopqrstuvwxyz"

\* strings.ToLower on one ASCII character
ToLowerChar(c) ==
    IF \E i \in 1..Len(UpperCase) : CharAt(UpperCase, i) = c
    THEN LET i == CHOOSE j \in 1..Len(UpperCase) : CharAt(UpperCase, j) = c
         IN  CharAt(LowerCase, i)
    ELSE c

RECURSIVE ToLower(_)
ToLower(s) == IF s = "" THEN "" ELSE ToLowerChar(Head(s)) \o ToLower(Tail(s))

HasSuffix(s, suf) ==
    /\ Len(s) >= Len(suf)
    /\ SubSeq(s, Len(s) - Len(suf) + 1, Len(s)) = suf

TrimSuffix(s, suf) ==
    IF HasSuffix(s, suf) THEN SubSeq(s, 1, Len(s) - Len(suf)) ELSE s

\* strings.ReplaceAll(s, ",", "")
RECURSIVE StripCommas(_)
StripCommas(s) ==
    IF s = "" THEN ""
    ELSE IF Head(s) = "," THEN StripCommas(Tail(s))
         ELSE Head(s) \o StripCommas(Tail(s))

\* strings.Trim(s, "_")
RECURSIVE TrimLeftUnderscore(_)
TrimLeftUnderscore(s) ==
    IF s # "" /\ Head(s) = "_" THEN TrimLeftUnderscore(Tail(s)) ELSE s

RECURSIVE TrimRightUnderscore(_)
TrimRightUnderscore(s) ==
    IF s # "" /\ CharAt(s, Len(s)) = "_"
    THEN TrimRightUnderscore(SubSeq(s, 1, Len(s) - 1))
    ELSE s

TrimUnderscores(s) == TrimRightUnderscore(TrimLeftUnderscore(s))

IsSlugChar(c) == IsDigit(c) \/ \E i \in 1..Len(LowerCase) : CharAt(LowerCase, i) = c

\* regexp `[^a-z0-9]+` replaced by "_": every maximal run becomes one "_"
RECURSIVE ReplacePunct(_, _)
ReplacePunct(s, inRun) ==
    IF s = "" THEN ""
    ELSE IF IsSlugChar(Head(s)) THEN Head(s) \o ReplacePunct(Tail(s), FALSE)
         ELSE IF inRun THEN ReplacePunct(Tail(s), TRUE)
              ELSE "_" \o ReplacePunct(Tail(s), TRUE)

slug(s) == TrimUnderscores(ReplacePunct(ToLower(s), FALSE))

(***************************************************************************)
(* Decimal strings                                                         *)
(***************************************************************************)
RECURSIVE StripLeadingZeros(_)
StripLeadingZeros(s) ==
    IF Len(s) > 1 /\ Head(s) = "0" THEN StripLeadingZeros(Tail(s)) ELSE s

\* a <= b for digit strings of equal length
RECURSIVE LexLeq(_, _)
LexLeq(a, b) ==
    IF a = "" THEN TRUE
    ELSE IF Head(a) = Head(b) THEN LexLeq(Tail(a), Tail(b))
         ELSE DigitVal(Head(a)) < DigitVal(Head(b))

\* a <= b for digit strings without leading zeros
DecLeq(a, b) == Len(a) < Len(b) \/ (Len(a) = Len(b) /\ LexLeq(a, b))

MaxInt64 == "9223372036854775807"

MinInt64Magnitude == "9223372036854775808"

RECURSIVE ToNat(_)
ToNat(s) == IF s = "" THEN 0 ELSE 10 * ToNat(SubSeq(s, 1, Len(s) - 1)) + DigitVal(CharAt(s, Len(s)))

RECURSIVE Zeros(_)
Zeros(n) == IF n <= 0 THEN "" ELSE "0" \o Zeros(n - 1)

Ok(v) == [ok |-> TRUE, val |-> v]

Err == [ok |-> FALSE, val |-> ""]

(***************************************************************************)
(* The parse rules                                                         *)
(***************************************************************************)
isLeap(year) == year % 4 = 0 /\ (year % 100 # 0 \/ year % 400 = 0)

daysIn(month, year) ==
    IF month = 2 THEN (IF isLeap(year) THEN 29 ELSE 28)
    ELSE IF month \in {4, 6, 9, 11} THEN 30 ELSE 31

\* time.Parse("2006-01-02", s): four digits, "-", two digits, "-", two
\* digits, nothing after; month 1..12, day 1..daysIn.  t.Format(RFC3339) of
\* the midnight UTC instant.
parseDate(s) ==
    IF /\ Len(s) = 10
       /\ AllDigits(SubSeq(s, 1, 4))
       /\ CharAt(s, 5) = "-"
       /\ AllDigits(SubSeq(s, 6, 7))
       /\ CharAt(s, 8) = "-"
       /\ AllDigits(SubSeq(s, 9, 10))
       /\ LET year  == ToNat(SubSeq(s, 1, 4))
              month == ToNat(SubSeq(s, 6, 7))
              day   == ToNat(SubSeq(s, 9, 10))
          IN  /\ month \in 1..12
              /\ day \in 1..daysIn(month, year)
    THEN Ok(s \o "T00:00:00Z")
    ELSE Err

\* strconv.Atoi then strconv.Itoa, on the decimal string
atoiItoa(s) ==
    LET neg  == s # "" /\ Head(s) = "-"
        body == IF s # "" /\ Head(s) \in {"-", "+"} THEN Tail(s) ELSE s
        mag  == StripLeadingZeros(body)
    IN  IF body = "" \/ ~AllDigits(body) THEN Err
        ELSE IF ~DecLeq(mag, IF neg THEN MinInt64Magnitude ELSE MaxInt64) THEN Err
        ELSE Ok(IF neg /\ mag # "0" THEN "-" \o mag ELSE mag)

parseInt(s) == atoiItoa(StripCommas(s))

\* strconv.ParseFloat(s, 64) then fmt.Sprintf("%f"): exact for inputs of at
\* most six fractional digits and fifteen significant digits.
floatFormat(s) ==
    LET neg   == s # "" /\ Head(s) = "-"
        body  == IF s # "" /\ Head(s) \in {"-", "+"} THEN Tail(s) ELSE s
        dots  == {i \in 1..Len(body) : CharAt(body, i) = "."}
        dot   == IF dots = {} THEN Len(body) + 1 ELSE CHOOSE i \in dots : TRUE
        ip    == SubSeq(body, 1, dot - 1)
        fp    == SubSeq(body, dot + 1, Len(body))
    IN  IF \/ Cardinality(dots) > 1
           \/ ~AllDigits(ip) \/ ~AllDigits(fp)
           \/ Len(ip) + Len(fp) = 0
        THEN Err
        ELSE Ok((IF neg THEN "-" ELSE "")
                \o (IF ip = "" THEN "0" ELSE StripLeadingZeros(ip))
                \o "." \o SubSeq(fp, 1, IF Len(fp) < 6 THEN Len(fp) ELSE 6)
                \o Zeros(6 - Len(fp)))

parseFloat(s) == floatFormat(StripCommas(s))

parsePercent(s) ==
    IF ~HasSuffix(s, "%") THEN Err ELSE floatFormat(TrimSuffix(s, "%"))

(***************************************************************************)
(* fieldType: the type hypothesis of one column                            *)
(***************************************************************************)
newFieldType ==
    [Date |-> TRUE, Int |-> TRUE, Float |-> TRUE, Percent |-> TRUE,
     Empty |-> FALSE, NonEmpty |-> FALSE]

\* a nil *fieldType, as make([]*fieldType, n) leaves every element
nilFieldType == [nil |-> TRUE]

\* the "#DIV/0!" sentinel reads as the empty string
sentinel(s) == IF s = "#DIV/0!" THEN "" ELSE s

\* Check without the assignment f.Float = false
CheckKeepsFloat(f, s) ==
    IF sentinel(s) = "" THEN [f EXCEPT !.Empty = TRUE]
    ELSE [f EXCEPT !.NonEmpty = TRUE,
                   !.Date     = f.Date /\ parseDate(sentinel(s)).ok,
                   !.Int      = f.Int /\ parseInt(sentinel(s)).ok,
                   !.Percent  = f.Percent /\ parsePercent(sentinel(s)).ok]

\* Check that sets each flag from the value at hand, whatever the flag was
CheckRetests(f, s) ==
    IF sentinel(s) = "" THEN [f EXCEPT !.Empty = TRUE]
    ELSE [f EXCEPT !.NonEmpty = TRUE,
                   !.Date     = parseDate(sentinel(s)).ok,
                   !.Int      = parseInt(sentinel(s)).ok,
                   !.Float    = parseFloat(sentinel(s)).ok,
                   !.Percent  = parsePercent(sentinel(s)).ok]

\* Check whose four tests are chained with else: only the first flag still
\* set is tested
CheckFirstTagOnly(f, s) ==
    IF sentinel(s) = "" THEN [f EXCEPT !.Empty = TRUE]
    ELSE IF f.Date
         THEN [f EXCEPT !.NonEmpty = TRUE, !.Date = parseDate(sentinel(s)).ok]
    ELSE IF f.Int
         THEN [f EXCEPT !.NonEmpty = TRUE, !.Int = parseInt(sentinel(s)).ok]
    ELSE IF f.Float
         THEN [f EXCEPT !.NonEmpty = TRUE, !.Float = parseFloat(sentinel(s)).ok]
    ELSE [f EXCEPT !.NonEmpty = TRUE,
                   !.Percent = f.Percent /\ parsePercent(sentinel(s)).ok]

\* (f *fieldType) Check(s): the receiver after the call
Check(f, s) ==
    IF sentinel(s) = "" THEN [f EXCEPT !.Empty = TRUE]
    ELSE [f EXCEPT !.NonEmpty = TRUE,
                   !.Date     = f.Date /\ parseDate(sentinel(s)).ok,
                   !.Int      = f.Int /\ parseInt(sentinel(s)).ok,
                   !.Float    = f.Float /\ parseFloat(sentinel(s)).ok,
                   !.Percent  = f.Percent /\ parsePercent(sentinel(s)).ok]

\* the tag the switch of Parse selects
parseTag(f) ==
    IF f.Date THEN "Date"
    ELSE IF f.Int THEN "Int"
    ELSE IF f.Float THEN "Float"
    ELSE IF f.Percent THEN "Percent"
    ELSE "Text"

\* (f fieldType) Parse(s): the returned (string, error)
Parse(f, s) ==
    IF sentinel(s) = "" THEN Ok("")
    ELSE CASE parseTag(f) = "Date"    -> parseDate(sentinel(s))
           [] parseTag(f) = "Int"     -> parseInt(sentinel(s))
           [] parseTag(f) = "Float"   -> parseFloat(sentinel(s))
           [] parseTag(f) = "Percent" -> parsePercent(sentinel(s))
           [] OTHER                   -> Ok(sentinel(s))

\* Parse with a pointer receiver that commits the hypothesis to the tag it
\* selected
ParseReceiverNarrows(f, s) ==
    [f EXCEPT !.Int     = f.Int /\ ~f.Date,
              !.Float   = f.Float /\ ~f.Date /\ ~f.Int,
              !.Percent = f.Percent /\ ~f.Date /\ ~f.Int /\ ~f.Float]

\* Parse has a value receiver: the caller's fieldType after the call
ParseReceiver(f, s) == f

\* SqlType that tests Int before Date
SqlTypeIntFirst(f) ==
    LET mod == IF ~f.Empty THEN " not null" ELSE ""
    IN  IF f.Int THEN "integer" \o mod
        ELSE IF f.Date THEN "timestamptz" \o mod
        ELSE IF f.Float \/ f.Percent THEN "float" \o mod
        ELSE "text"

\* (f fieldType) SqlType()
SqlType(f) ==
    LET mod == IF ~f.Empty THEN " not null" ELSE ""
    IN  IF f.Date THEN "timestamptz" \o mod
        ELSE IF f.Int THEN "integer" \o mod
        ELSE IF f.Float \/ f.Percent THEN "float" \o mod
        ELSE "text"

(***************************************************************************)
(* Column identifiers                                                      *)
(***************************************************************************)
RECURSIVE itoa(_)
itoa(n) ==
    IF n < 10 THEN CharAt("0123456789", n + 1)
    ELSE itoa(n \div 10) \o CharAt("0123456789", (n % 10) + 1)

\* the first suffix counter, from k up, whose name is not seen
RECURSIVE firstFree(_, _, _)
firstFree(sl, seen, k) ==
    IF (sl \o "_" \o itoa(k)) \notin seen THEN k ELSE firstFree(sl, seen, k + 1)

\* columnName that appends "_2" on a collision without probing further
columnNameOneSuffix(col, seen) ==
    LET sl == IF slug(col) = "" THEN "x" ELSE slug(col)
    IN  IF sl \in seen THEN sl \o "_2" ELSE sl

\* the identifier of a header cell, given the identifiers already assigned
columnName(col, seen) ==
    LET sl == IF slug(col) = "" THEN "x" ELSE slug(col)
    IN  IF sl \in seen THEN sl \o "_" \o itoa(firstFree(sl, seen, 2)) ELSE sl

(***************************************************************************)
(* Files                                                                   *)
(***************************************************************************)
\* what the file system and the CSV reader hold for one argument
File(name, exists, creatable, readErr, recs) ==
    [name |-> name, exists |-> exists, creatable |-> creatable,
     readErr |-> readErr, recs |-> recs]

\* csv.Reader.ReadAll with FieldsPerRecord = 0: an I/O or quoting error, or a
\* record whose field count differs from the first record's, is an error
ReadAll(file) ==
    IF file.readErr THEN [ok |-> FALSE, val |-> <<>>]
    ELSE IF \E k \in 1..Len(file.recs) : Len(file.recs[k]) # Len(file.recs[1])
         THEN [ok |-> FALSE, val |-> <<>>]
         ELSE [ok |-> TRUE, val |-> file.recs]

outName(filename) == TrimSuffix(filename, ".csv") \o ".sql"

(***************************************************************************)
(* Bounds and inputs                                                       *)
(***************************************************************************)
\* data fields of one table (rows times columns)
MaxCells == 3

\* columns of a header-only table
MaxHeader == 3

\* arguments on the command line
MaxArgs == 2

\* field values: empty, the sentinel, and one value for each way the four
\* parse rules can agree and disagree
Values == {"", "#DIV/0!", "2023-01-01", "2,000", "1.5", "10%", "abc"}

\* header cells: repeats, cells that slug to the same name, a cell that
\* slugs to the empty string, and cells that look like a suffixed name
HeaderCells == {"Name", "name", "Name 2", "name_2", "", "x"}

SeqsOf(S, n) == [1..n -> S]

\* every table of rows data rows and cols columns, under a repeated header
TablesOfShape(cols, rows) ==
    { <<[j \in 1..cols |-> "Col"]>> \o data : data \in SeqsOf(SeqsOf(Values, cols), rows) }

DataTables ==
    UNION { TablesOfShape(s[1], s[2]) :
              s \in {t \in (1..MaxCells) \X (1..MaxCells) : t[1] * t[2] <= MaxCells} }

HeaderTables == UNION { { <<h>> : h \in SeqsOf(HeaderCells, n) } : n \in 1..MaxHeader }

\* a readable table written beside its source
TableFile(recs) == File("t.csv", TRUE, TRUE, FALSE, recs)

\* named files of the multi-argument runs
Catalog ==
    { File("missing.csv", FALSE, TRUE, FALSE, <<>>),
      File("readonly/t.csv", TRUE, FALSE, FALSE, <<<<"a">>, <<"1">>>>),
      File("quotes.csv", TRUE, TRUE, TRUE, <<>>),
      File("ragged.csv", TRUE, TRUE, FALSE, <<<<"a", "b">>, <<"1", "2", "3">>>>),
      File("empty.csv", TRUE, TRUE, FALSE, <<>>),
      File("Sales 2023.csv", TRUE, TRUE, FALSE,
           <<<<"Day", "Units">>, <<"2023-01-01", "2,000">>, <<"2023-02-15", "">>>>),
      File("notes", TRUE, TRUE, FALSE, <<<<"Name", "name">>, <<"1.5", "abc">>>>) }

ArgLists == UNION { SeqsOf(Catalog, n) : n \in 0..MaxArgs }

(***************************************************************************)
(* State                                                                   *)
(***************************************************************************)
VARIABLES
    args,         \* flag.Args(), each with what the file system holds for it
    clean,        \* --clean
    merge,        \* --merge
    pc,           \* the statement the program is at
    argi,         \* main: index of the argument being handled
    sqlFiles,     \* main: sqlFiles
    results,      \* what each returned handle call returned ("nil" or an error)
    logged,       \* the file names log.Printf reported
    manifest,     \* alltables.sql
    inFile,       \* handle: in ("none", "open", "closed")
    outFile,      \* handle: out ("none", "open", "closed")
    out,          \* handle: what was written to out
    records,      \* handle: records
    types,        \* handle: types
    columnNames,  \* handle: columnNames
    columnSeen,   \* handle: columnSeen
    i,            \* handle: column index of the running loop (from 1)
    r,            \* handle: data row of the running loop (from 1)
    fields,       \* handle: fields of the row being re-encoded
    err,          \* handle: the returned error
    nCheck,       \* calls of Check in this handle call
    nSqlType,     \* calls of SqlType in this handle call
    nParse,       \* calls of Parse in this handle call
    parsedAs      \* <<column, tag>> of every Parse call that reached its switch

cfgVars == <<args, clean, merge>>

mainVars == <<argi, sqlFiles, results, logged, manifest>>

ioVars == <<inFile, outFile, out>>

tableVars == <<records, types, columnNames, columnSeen>>

loopVars == <<i, r, fields>>

callVars == <<nCheck, nSqlType, nParse, parsedAs>>

vars == <<cfgVars, mainVars, ioVars, tableVars, loopVars, callVars, pc, err>>

file == args[argi]

filename == file.name

nCols == Len(records[1])

nRows == Len(records) - 1

row == records[r + 1]

Terminal == {"done", "fatal", "panic", "internal_error"}

Init ==
    /\ \/ args \in ArgLists /\ clean \in BOOLEAN /\ merge \in {"", "all"}
       \/ args \in { <<TableFile(t)>> : t \in DataTables \cup HeaderTables }
          /\ clean = FALSE /\ merge = ""
    /\ pc = "main_loop"
    /\ argi = 0
    /\ sqlFiles = <<>>
    /\ results = <<>>
    /\ logged = <<>>
    /\ manifest = [written |-> FALSE, lines |-> <<>>]
    /\ inFile = "none" /\ outFile = "none" /\ out = <<>>
    /\ records = <<>> /\ types = <<>> /\ columnNames = <<>> /\ columnSeen = {}
    /\ i = 1 /\ r = 1 /\ fields = <<>>
    /\ err = "nil"
    /\ nCheck = 0 /\ nSqlType = 0 /\ nParse = 0 /\ parsedAs = {}

(***************************************************************************)
(* main                                                                    *)
(***************************************************************************)
\* main.go 25-26: the next argument is handed to handle, whose locals are new
MainCall ==
    /\ pc = "main_loop"
    /\ argi < Len(args)
    /\ argi' = argi + 1
    /\ pc' = "h_open"
    /\ inFile' = "none" /\ outFile' = "none" /\ out' = <<>>
    /\ records' = <<>> /\ types' = <<>> /\ columnNames' = <<>> /\ columnSeen' = {}
    /\ i' = 1 /\ r' = 1 /\ fields' = <<>>
    /\ err' = "nil"
    /\ nCheck' = 0 /\ nSqlType' = 0 /\ nParse' = 0 /\ parsedAs' = {}
    /\ UNCHANGED <<cfgVars, sqlFiles, results, logged, manifest>>

\* main.go 27-31: a failed table is logged and skipped, the others are listed
MainAfterHandle ==
    /\ pc = "h_returned"
    /\ results' = Append(results, err)
    /\ IF err # "nil"
       THEN logged' = Append(logged, filename) /\ UNCHANGED sqlFiles
       ELSE sqlFiles' = Append(sqlFiles, outName(filename)) /\ UNCHANGED logged
    /\ pc' = "main_loop"
    /\ UNCHANGED <<cfgVars, argi, manifest, ioVars, tableVars, loopVars, callVars, err>>

\* main.go 33-36: os.Create("alltables.sql") fails and log.Fatal ends the run
MainManifestFails ==
    /\ pc = "main_loop"
    /\ argi = Len(args)
    /\ pc' = "fatal"
    /\ UNCHANGED <<cfgVars, mainVars, ioVars, tableVars, loopVars, callVars, err>>

mergeLines ==
    IF merge = "" THEN <<>>
    ELSE (IF clean THEN <<[kind |-> "drop", table |-> merge]>> ELSE <<>>)
         \o <<[kind    |-> "create_as",
               table   |-> merge,
               selects |-> [k \in 1..Len(sqlFiles) |->
                              slug(TrimSuffix(sqlFiles[k], ".sql"))]]>>

\* main.go 33-52: the manifest
MainManifest ==
    /\ pc = "main_loop"
    /\ argi = Len(args)
    /\ manifest' =
         [written |-> TRUE,
          lines   |-> [k \in 1..Len(sqlFiles) |-> [kind |-> "include", file |-> sqlFiles[k]]]
                      \o mergeLines]
    /\ pc' = "done"
    /\ UNCHANGED <<cfgVars, argi, sqlFiles, results, logged, ioVars, tableVars,
                   loopVars, callVars, err>>

(***************************************************************************)
(* handle                                                                  *)
(***************************************************************************)
\* a return statement of handle
return(e) == pc' = "h_returned" /\ err' = e

\* main.go 193-196
HOpen ==
    /\ pc = "h_open"
    /\ IF file.exists
       THEN inFile' = "open" /\ pc' = "h_create" /\ UNCHANGED err
       ELSE return("open") /\ UNCHANGED inFile
    /\ UNCHANGED <<cfgVars, mainVars, outFile, out, tableVars, loopVars, callVars>>

\* main.go 197-201
HCreate ==
    /\ pc = "h_create"
    /\ IF file.creatable
       THEN outFile' = "open" /\ pc' = "h_read" /\ UNCHANGED err
       ELSE return("create") /\ UNCHANGED outFile
    /\ UNCHANGED <<cfgVars, mainVars, inFile, out, tableVars, loopVars, callVars>>

\* main.go 203-208
HReadAll ==
    /\ pc = "h_read"
    /\ IF ReadAll(file).ok
       THEN records' = ReadAll(file).val /\ pc' = "h_alloc" /\ UNCHANGED err
       ELSE return("read") /\ UNCHANGED records
    /\ UNCHANGED <<cfgVars, mainVars, ioVars, types, columnNames, columnSeen,
                   loopVars, callVars>>

\* main.go 209-211: records[0] of no records is an index out of range
HAlloc ==
    /\ pc = "h_alloc"
    /\ IF Len(records) = 0
       THEN pc' = "panic" /\ UNCHANGED <<types, columnNames, columnSeen, i>>
       ELSE /\ types' = [k \in 1..nCols |-> nilFieldType]
            /\ columnNames' = [k \in 1..nCols |-> ""]
            /\ columnSeen' = {}
            /\ i' = 1
            /\ pc' = "h_header"
    /\ UNCHANGED <<cfgVars, mainVars, ioVars, records, r, fields, callVars, err>>

\* where the loop over records[1:] starts, or what follows it when it is empty
enterRows(first, after) ==
    IF nRows = 0 THEN pc' = after /\ UNCHANGED r
    ELSE pc' = first /\ r' = 1

\* main.go 212-233: one header cell
HHeaderCol ==
    /\ pc = "h_header"
    /\ i \in 1..Len(types) /\ i \in 1..Len(columnNames)
    /\ types' = [types EXCEPT ![i] = newFieldType]
    /\ columnSeen' = columnSeen \cup {columnName(records[1][i], columnSeen)}
    /\ columnNames' = [columnNames EXCEPT ![i] = columnName(records[1][i], columnSeen)]
    /\ IF i < nCols
       THEN i' = i + 1 /\ UNCHANGED <<pc, r>>
       ELSE i' = 1 /\ enterRows("h_check", "h_begin")
    /\ UNCHANGED <<cfgVars, mainVars, ioVars, records, fields, callVars, err>>

\* main.go 235-239: one field of pass 1; types[i] past the end is an index
\* out of range
HCheck ==
    /\ pc = "h_check"
    /\ IF i > Len(types)
       THEN pc' = "panic" /\ UNCHANGED <<types, i, r, nCheck>>
       ELSE /\ types' = [types EXCEPT ![i] = Check(types[i], row[i])]
            /\ nCheck' = nCheck + 1
            /\ IF i < Len(row) THEN i' = i + 1 /\ UNCHANGED <<pc, r>>
               ELSE IF r < nRows THEN i' = 1 /\ r' = r + 1 /\ UNCHANGED pc
               ELSE i' = 1 /\ pc' = "h_begin" /\ UNCHANGED r
    /\ UNCHANGED <<cfgVars, mainVars, ioVars, records, columnNames, columnSeen,
                   fields, nSqlType, nParse, parsedAs, err>>

tablename == slug(TrimSuffix(filename, ".csv"))

\* main.go 241-247
HBegin ==
    /\ pc = "h_begin"
    /\ out' = out \o <<[kind |-> "begin", source |-> filename]>>
                  \o (IF clean THEN <<[kind |-> "drop", table |-> tablename]>> ELSE <<>>)
                  \o <<[kind |-> "create", table |-> tablename]>>
    /\ i' = 1
    /\ pc' = "h_schema"
    /\ UNCHANGED <<cfgVars, mainVars, inFile, outFile, tableVars, r, fields,
                   callVars, err>>

\* main.go 249-255: one column of the create table statement
HSchemaCol ==
    /\ pc = "h_schema"
    /\ i \in 1..Len(types) /\ i \in 1..Len(columnNames)
    /\ out' = Append(out, [kind    |-> "column",
                           name    |-> columnNames[i],
                           type    |-> SqlType(types[i]),
                           comma   |-> IF i = nCols THEN "" ELSE ",",
                           comment |-> records[1][i]])
    /\ nSqlType' = nSqlType + 1
    /\ IF i < nCols THEN i' = i + 1 /\ UNCHANGED pc
       ELSE i' = 1 /\ pc' = "h_copy"
    /\ UNCHANGED <<cfgVars, mainVars, inFile, outFile, tableVars, r, fields,
                   nCheck, nParse, parsedAs, err>>

\* main.go 256-259
HCopy ==
    /\ pc = "h_copy"
    /\ out' = out \o <<[kind |-> "end_create"],
                       [kind |-> "copy", table |-> tablename, columns |-> columnNames]>>
    /\ i' = 1
    /\ fields' = <<>>
    /\ enterRows("h_parse", "h_finish")
    /\ UNCHANGED <<cfgVars, mainVars, inFile, outFile, tableVars, callVars, err>>

\* main.go 261-267: one field of pass 2; a Parse error is log.Fatalf
HParse ==
    /\ pc = "h_parse"
    /\ IF i > Len(types)
       THEN pc' = "panic" /\ UNCHANGED <<types, i, fields, nParse, parsedAs>>
       ELSE /\ nParse' = nParse + 1
            /\ types' = [types EXCEPT ![i] = ParseReceiver(types[i], row[i])]
            /\ parsedAs' = IF sentinel(row[i]) = "" THEN parsedAs
                           ELSE parsedAs \cup {<<i, parseTag(types[i])>>}
            /\ IF ~Parse(types[i], row[i]).ok
               THEN pc' = "internal_error" /\ UNCHANGED <<i, fields>>
               ELSE /\ fields' = Append(fields, Parse(types[i], row[i]).val)
                    /\ IF i < Len(row) THEN i' = i + 1 /\ UNCHANGED pc
                       ELSE i' = 1 /\ pc' = "h_write"
    /\ UNCHANGED <<cfgVars, mainVars, ioVars, records, columnNames, columnSeen, r,
                   nCheck, nSqlType, err>>

\* main.go 268-272: the row is written
HWriteRow ==
    /\ pc = "h_write"
    /\ out' = Append(out, [kind |-> "row", fields |-> fields])
    /\ fields' = <<>>
    /\ IF r < nRows THEN r' = r + 1 /\ pc' = "h_parse"
       ELSE pc' = "h_finish" /\ UNCHANGED r
    /\ UNCHANGED <<cfgVars, mainVars, inFile, outFile, tableVars, i, callVars, err>>

\* main.go 268-271: csvWriter.Write reports an error of the output file
HWriteRowFails ==
    /\ pc = "h_write"
    /\ return("write")
    /\ UNCHANGED <<cfgVars, mainVars, ioVars, tableVars, loopVars, callVars>>

\* main.go 273-276: out.Close() returns nil or its error
HFinish ==
    /\ pc = "h_finish"
    /\ out' = Append(out, [kind |-> "end_data"])
    /\ outFile' = "closed"
    /\ \E e \in {"nil", "close"} : return(e)
    /\ UNCHANGED <<cfgVars, mainVars, inFile, tableVars, loopVars, callVars>>

Next ==
    \/ MainCall
    \/ MainAfterHandle
    \/ MainManifestFails
    \/ MainManifest
    \/ HOpen
    \/ HCreate
    \/ HReadAll
    \/ HAlloc
    \/ HHeaderCol
    \/ HCheck
    \/ HBegin
    \/ HSchemaCol
    \/ HCopy
    \/ HParse
    \/ HWriteRow
    \/ HWriteRowFails
    \/ HFinish

Spec == Init /\ [][Next]_vars

(***************************************************************************)
(* Vocabulary of the properties                                            *)
(***************************************************************************)
Tags == {"Date", "Int", "Float", "Percent"}

\* the tags a hypothesis still holds possible
PossibleTags(f) ==
    {t \in Tags : \/ t = "Date" /\ f.Date
                  \/ t = "Int" /\ f.Int
                  \/ t = "Float" /\ f.Float
                  \/ t = "Percent" /\ f.Percent}

Precedence == <<"Date", "Int", "Float", "Percent">>

\* the first tag of Precedence in S, Text when there is none
HighestTag(S) ==
    IF \E k \in 1..Len(Precedence) : Precedence[k] \in S
    THEN Precedence[CHOOSE k \in 1..Len(Precedence) :
                      /\ Precedence[k] \in S
                      /\ \A j \in 1..(k - 1) : Precedence[j] \notin S]
    ELSE "Text"

TagSqlType(t) ==
    CASE t = "Date" -> "timestamptz"
      [] t = "Int" -> "integer"
      [] t \in {"Float", "Percent"} -> "float"
      [] OTHER -> "text"

NotNull(t) == HasSuffix(t, " not null")

BaseType(t) == TrimSuffix(t, " not null")

IsEmptyValue(v) == v \in {"", "#DIV/0!"}

\* the data values of column k, in row order
Column(k) == [j \in 1..nRows |-> records[j + 1][k]]

IsColumnLine(l) == l.kind = "column"

\* the column lines written so far: line k declares column k
Declared == SelectSeq(out, IsColumnLine)

\* the statements of handle after the loop of pass 1
AfterPass1 == {"h_begin", "h_schema", "h_copy", "h_parse", "h_write", "h_finish"}

RECURSIVE CheckAll(_, _)
CheckAll(f, vals) ==
    IF vals = <<>> THEN f ELSE CheckAll(Check(f, Head(vals)), Tail(vals))

Perms(n) == {p \in [1..n -> 1..n] : \A a, b \in 1..n : p[a] = p[b] => a = b}

ValidIdentifier(s) ==
    /\ s # ""
    /\ \A k \in 1..Len(s) : IsSlugChar(CharAt(s, k)) \/ CharAt(s, k) = "_"
    /\ Head(s) # "_"
    /\ CharAt(s, Len(s)) # "_"

\* the columns whose identifier has been assigned
Assigned ==
    IF pc = "h_header" THEN 1..(i - 1) ELSE 1..Len(columnNames)

\* the include lines of the manifest, in order
IsIncludeLine(l) == l.kind = "include"

Includes ==
    LET inc == SelectSeq(manifest.lines, IsIncludeLine)
    IN  [k \in 1..Len(inc) |-> inc[k].file]

\* the script names of the arguments whose handle call returned no error
RECURSIVE ExpectedIncludes(_)
ExpectedIncludes(n) ==
    IF n = 0 THEN <<>>
    ELSE ExpectedIncludes(n - 1)
         \o (IF results[n] = "nil" THEN <<outName(args[n].name)>> ELSE <<>>)

(***************************************************************************)
(* Properties                                                              *)
(***************************************************************************)

\* C1 (round-trip safety): once pass 1 of a table is over, Parse under the
\* column's hypothesis accepts every data value of the column, and the
\* "internal error" abort of handle is never reached.
C1_RoundTripSafety ==
    /\ pc # "internal_error"
    /\ pc \in AfterPass1 =>
         \A k \in 1..Len(types) : \A j \in 1..nRows :
             Parse(types[k], records[j + 1][k]).ok

\* a row has been re-encoded in which a non-empty value went through the
\* parse rule of a surviving tag and came out rewritten
C1_Witness ==
    /\ pc = "h_write"
    /\ \E k \in 1..Len(fields) :
          /\ ~IsEmptyValue(row[k])
          /\ parseTag(types[k]) # "Text"
          /\ fields[k] # row[k]

\* C2 (nullability), as claimed: a declared column type has no " not null"
\* modifier exactly when a value of the column was empty or the sentinel,
\* whatever the type, text included.
C2_NullabilityCorrectness ==
    \A k \in 1..Len(Declared) :
        ~NotNull(Declared[k].type) <=> \E j \in 1..nRows : IsEmptyValue(Column(k)[j])

\* C3 (identifier uniqueness): the identifiers assigned so far are pairwise
\* distinct, non-empty, made of [a-z0-9_] and neither start nor end with "_".
C3_IdentifierUniqueness ==
    /\ \A k \in Assigned : ValidIdentifier(columnNames[k])
    /\ \A j, k \in Assigned : columnNames[j] = columnNames[k] => j = k

\* a repeated header followed by a header that looks like the suffixed name
\* the repeat was given, and a header that slugs to the empty string
C3_Witness ==
    /\ pc = "h_begin"
    /\ records[1] \in {<<"Name", "name", "name_2">>, <<"", "x", "">>}
    /\ columnNames \in {<<"name", "name_2", "name_2_2">>, <<"x", "x_2", "x_3">>}

\* C4 (resource release), as claimed: when handle returns, neither the input
\* file nor the output file is still open.
C4_ResourceRelease ==
    pc = "h_returned" => inFile # "open" /\ outFile # "open"

\* C5 (partial-failure tolerance), as claimed: when the run is over (a failure
\* to create the manifest aside), handle has returned for every argument and
\* the manifest includes exactly the scripts of the arguments whose handle call
\* returned no error, in argument order.
C5_PartialFailureTolerance ==
    pc \in Terminal \ {"fatal"} =>
        /\ Len(results) = Len(args)
        /\ manifest.written
        /\ Includes = ExpectedIncludes(Len(results))

\* C6 (precedence resolution): every declared column type is the type of the
\* highest-precedence tag the column's hypothesis still holds possible, text
\* when it holds none; a column whose values are all empty is declared
\* timestamptz, nullable.
C6_PrecedenceResolution ==
    \A k \in 1..Len(Declared) :
        /\ BaseType(Declared[k].type) = TagSqlType(HighestTag(PossibleTags(types[k])))
        /\ (nRows > 0 /\ \A j \in 1..nRows : IsEmptyValue(Column(k)[j]))
              => Declared[k].type = "timestamptz"

\* a column of empty values only has been declared, and so has a column that
\* lost every tag
C6_Witness ==
    /\ pc = "h_copy"
    /\ nRows > 1
    /\ \E k \in 1..Len(Declared) :
          \/ \A j \in 1..nRows : IsEmptyValue(Column(k)[j])
          \/ PossibleTags(types[k]) = {}

\* C7 (narrowing monotonicity): a step of handle from pass 1 on never adds a
\* tag to a column's hypothesis, and a Check call with an empty value or the
\* sentinel leaves the tags of its column as they were.
C7_NarrowingMonotonicity ==
    [][(pc \in AfterPass1 \cup {"h_check"}) =>
         (/\ Len(types') = Len(types)
          /\ \A k \in 1..Len(types) :
                PossibleTags(types'[k]) \subseteq PossibleTags(types[k])
          /\ (pc = "h_check" /\ i <= Len(types) /\ IsEmptyValue(row[i]))
                => PossibleTags(types'[i]) = PossibleTags(types[i]))]_vars

\* pass 1 is running on a column that has lost a tag, kept another and seen
\* an empty value
C7_Witness ==
    /\ pc = "h_check"
    /\ \E k \in 1..Len(types) :
          /\ types[k].Empty
          /\ PossibleTags(types[k]) \notin {{}, Tags}

\* C8 (resolution determinism): at the end of pass 1 the hypothesis of every
\* column, and so its SQL type, is what Check yields from a fresh hypothesis
\* on the column's values taken in any order.
C8_ResolutionDeterminism ==
    pc = "h_begin" =>
        \A k \in 1..Len(types) : \A p \in Perms(nRows) :
            /\ CheckAll(newFieldType, [j \in 1..nRows |-> Column(k)[p[j]]]) = types[k]
            /\ SqlType(CheckAll(newFieldType, [j \in 1..nRows |-> Column(k)[p[j]]]))
                  = SqlType(types[k])

\* pass 1 has ended on a column of three values among which only the last
\* removes the Float tag, one is empty and one removes the Int tag
C8_Witness ==
    /\ pc = "h_begin"
    /\ nRows = 3
    /\ Column(1) = <<"1.5", "", "abc">>

\* C9 (two-pass sequencing): once SqlType or Parse has been called in a handle
\* call, Check has been called on every data field; from the end of pass 1 on
\* no hypothesis changes and Check is not called; and the tag every Parse call
\* applied is one whose SQL type the create table statement declared.
C9_TwoPassSequencing ==
    /\ []((nSqlType > 0 \/ nParse > 0) =>
            /\ nCheck = nRows * nCols
            /\ \A e \in parsedAs : BaseType(Declared[e[1]].type) = TagSqlType(e[2]))
    /\ [][(pc \in AfterPass1) => (types' = types /\ nCheck' = nCheck)]_vars

\* the second row of a table of two columns is being re-encoded, and a
\* column's values went through the switch of Parse
C9_Witness ==
    /\ pc = "h_parse"
    /\ r = 2
    /\ nCols = 2
    /\ parsedAs # {}

\* C10 (in-bounds access), as claimed: handle never aborts the run with an
\* index out of range.
C10_InBoundsAccess == pc # "panic"

=============================================================================
